---- MODULE Spec2Model ----
(***************************************************************************)
(* Model of src/main.cpp: counting the elements of an array divisible by   *)
(* DIVISOR and finding their minimum, sequentially, with worker threads    *)
(* merging under a mutex, and with worker threads merging through atomics  *)
(* (fetch_add and a compare_exchange_weak retry loop).                     *)
(***************************************************************************)
EXTENDS Integers, Sequences, FiniteSets, TLC

\* ------------------------------------------------------------------ bounds
MaxLen == 3        \* longest array, and largest DATA_SIZE, explored
MaxThreads == 3    \* largest NUM_THREADS explored
MaxCalls == 1      \* extra reduction calls a caller makes after main's three

INT_MAX == 2147483647
DIVISOR == 19

Values == {0, 5, 19, 38}      \* element values (generateData draws 0..99999)
Workers == 0 .. (MaxThreads - 1)
MainThread == MaxThreads      \* id of the calling thread in the read log

VARIABLES
    DATA_SIZE, NUM_THREADS,           \* the compile-time sizes
    data,                             \* vector<int> data (index k is data[k+1])
    mainPc, calls,                    \* where the caller is; calls begun so far
    count, minElement,                \* main's int count, minElement
    atomicCount, atomicMinElement,    \* main's atomics
    mtx,                              \* holder of the mutex, or -1
    threads, joined,                  \* threads emplaced / joined so far
    pc, start, end, i,                \* each worker's position and range
    localCount, localMin, currentMin, \* each worker's locals
    reads,                            \* log of <<thread, index>> reads of data[]
    raced,                            \* a CAS succeeded since w last observed it
    adds, swaps, fails,               \* per worker: merges of localCount done,
                                      \* exchanges that succeeded / that failed
    results                           \* the (count, min) each call returned

vars == <<DATA_SIZE, NUM_THREADS, data, mainPc, calls, count,
          minElement, atomicCount, atomicMinElement, mtx, threads, joined,
          pc, start, end, i, localCount, localMin, currentMin, reads, raced,
          adds, swaps, fails, results>>

config == <<DATA_SIZE, NUM_THREADS, data>>
locals == <<start, end, i, localCount, localMin, currentMin>>
history == <<adds, swaps, fails>>

\* ----------------------------------------------------------------- helpers
SeqsUpTo(n) == UNION {[1 .. k -> Values] : k \in 0 .. n}

At(k) == data[k + 1]

InBounds(k) == k >= 0 /\ k < Len(data)

divisible(value) == value % DIVISOR = 0

min(a, b) == IF b < a THEN b ELSE a

chunkSize == DATA_SIZE \div NUM_THREADS

shardStart(k) == k * chunkSize

shardEnd(k) == IF k = NUM_THREADS - 1 THEN DATA_SIZE ELSE shardStart(k) + chunkSize

\* the range-for of findDivisibleWithoutParallel, from element k on
RECURSIVE scanAll(_, _, _)
scanAll(k, c, m) ==
    IF k >= Len(data) THEN <<c, m>>
    ELSE IF divisible(At(k)) THEN scanAll(k + 1, c + 1, min(m, At(k)))
         ELSE scanAll(k + 1, c, m)

Record(fn, pair) == [results EXCEPT ![fn] = Append(@, pair)]

\* where main goes when its n-th call returns (lines 119, 128, 138, 146)
afterCall(n) == IF n = 1 THEN "mutex" ELSE IF n = 2 THEN "atomic" ELSE "done"

\* -------------------------------------------------------------------- init
InitRest ==
    /\ mainPc = "seq" /\ calls = 0
    /\ count = 0 /\ minElement = 0
    /\ atomicCount = 0 /\ atomicMinElement = INT_MAX
    /\ mtx = -1 /\ threads = 0 /\ joined = 0
    /\ pc = [w \in Workers |-> "unspawned"]
    /\ start = [w \in Workers |-> 0]
    /\ end = [w \in Workers |-> 0]
    /\ i = [w \in Workers |-> 0]
    /\ localCount = [w \in Workers |-> 0]
    /\ localMin = [w \in Workers |-> INT_MAX]
    /\ currentMin = [w \in Workers |-> INT_MAX]
    /\ reads = {}
    /\ raced = [w \in Workers |-> FALSE]
    /\ adds = [w \in Workers |-> 0]
    /\ swaps = [w \in Workers |-> 0]
    /\ fails = [w \in Workers |-> 0]
    /\ results = [seq |-> <<>>, mutex |-> <<>>, atomic |-> <<>>]

\* main: data = generateData(DATA_SIZE)
Init ==
    /\ DATA_SIZE \in 0 .. MaxLen
    /\ NUM_THREADS \in 1 .. MaxThreads
    /\ data \in SeqsUpTo(MaxLen) /\ Len(data) = DATA_SIZE
    /\ InitRest

\* a caller handing the reductions an array of any length
InitAnyLength ==
    /\ DATA_SIZE \in 0 .. MaxLen
    /\ NUM_THREADS \in 1 .. MaxThreads
    /\ data \in SeqsUpTo(MaxLen)
    /\ InitRest

\* ------------------------------------------------ findDivisibleWithoutParallel
findDivisibleWithoutParallel ==
    /\ mainPc = "seq"
    /\ LET r == scanAll(0, 0, INT_MAX) IN
         /\ count' = r[1]
         /\ minElement' = r[2]
         /\ results' = Record("seq", r)
    /\ reads' = {<<MainThread, k>> : k \in 0 .. (Len(data) - 1)}
    /\ calls' = calls + 1
    /\ mainPc' = afterCall(calls + 1)
    /\ UNCHANGED <<config, atomicCount, atomicMinElement, mtx, threads, joined,
                   pc, locals, raced, history>>

\* ------------------------------------------------------- the workers' scan
\* threads.emplace_back(task, start, end) for thread number `threads`; the
\* task goes to `after` at once when its for loop has nothing to scan
spawn(after) ==
    /\ threads < NUM_THREADS
    /\ pc' = [pc EXCEPT ![threads] =
                IF shardStart(threads) < shardEnd(threads) THEN "scan" ELSE after]
    /\ start' = [start EXCEPT ![threads] = shardStart(threads)]
    /\ end' = [end EXCEPT ![threads] = shardEnd(threads)]
    /\ i' = [i EXCEPT ![threads] = shardStart(threads)]
    /\ localCount' = [localCount EXCEPT ![threads] = 0]
    /\ localMin' = [localMin EXCEPT ![threads] = INT_MAX]
    /\ threads' = threads + 1
    /\ UNCHANGED <<currentMin>>

\* faulty variant: localMin is updated outside the divisibility test
scanElementMinOutsideIf(w, value, after) ==
    /\ reads' = reads \cup {<<w, i[w]>>}
    /\ i' = [i EXCEPT ![w] = @ + 1]
    /\ pc' = [pc EXCEPT ![w] = IF i[w] + 1 < end[w] THEN "scan" ELSE after]
    /\ localMin' = [localMin EXCEPT ![w] = min(@, value)]
    /\ IF divisible(value)
         THEN localCount' = [localCount EXCEPT ![w] = @ + 1]
         ELSE UNCHANGED localCount
    /\ UNCHANGED <<start, end, currentMin>>

\* faulty variant: the loop is left after its first iteration
scanElementBreak(w, value, after) ==
    /\ reads' = reads \cup {<<w, i[w]>>}
    /\ i' = [i EXCEPT ![w] = @ + 1]
    /\ pc' = [pc EXCEPT ![w] = after]
    /\ IF divisible(value)
         THEN /\ localCount' = [localCount EXCEPT ![w] = @ + 1]
              /\ localMin' = [localMin EXCEPT ![w] = min(@, value)]
         ELSE UNCHANGED <<localCount, localMin>>
    /\ UNCHANGED <<start, end, currentMin>>

\* one iteration of the task's for loop, data[i] reading `value`; the task
\* goes to `after` when ++i ends the loop
scanElement(w, value, after) ==
    /\ reads' = reads \cup {<<w, i[w]>>}
    /\ i' = [i EXCEPT ![w] = @ + 1]
    /\ pc' = [pc EXCEPT ![w] = IF i[w] + 1 < end[w] THEN "scan" ELSE after]
    /\ IF divisible(value)
         THEN /\ localCount' = [localCount EXCEPT ![w] = @ + 1]
              /\ localMin' = [localMin EXCEPT ![w] = min(@, value)]
         ELSE UNCHANGED <<localCount, localMin>>
    /\ UNCHANGED <<start, end, currentMin>>

\* data[i] with i past the end of the vector: undefined behaviour. The read
\* yields whatever lies there, or the process dies on the access.
scanPastEnd(w, after) ==
    \/ /\ \E value \in Values : scanElement(w, value, after)
       /\ UNCHANGED mainPc
    \/ /\ mainPc' = "crashed"
       /\ pc' = [v \in Workers |-> "aborted"]
       /\ reads' = reads \cup {<<w, i[w]>>}
       /\ UNCHANGED locals

\* faulty variant: the caller does not wait for the thread to finish
joinNoWait ==
    /\ joined < NUM_THREADS
    /\ joined' = joined + 1

\* thread.join() of the next thread in the vector
join ==
    /\ joined < NUM_THREADS
    /\ pc[joined] = "done"
    /\ joined' = joined + 1

resetWorkers ==
    /\ pc' = [w \in Workers |-> "unspawned"]
    /\ threads' = 0
    /\ joined' = 0
    /\ reads' = {}
    /\ raced' = [w \in Workers |-> FALSE]
    /\ adds' = [w \in Workers |-> 0]
    /\ swaps' = [w \in Workers |-> 0]
    /\ fails' = [w \in Workers |-> 0]

\* ------------------------------------------------------ findDivisibleWithMutex
\* faulty variant: count and minElement keep the values the caller passed in
MutexEnterNoReset ==
    /\ mainPc = "mutex"
    /\ mtx' = -1
    /\ resetWorkers
    /\ calls' = calls + 1
    /\ mainPc' = "mutexSpawn"
    /\ UNCHANGED <<config, count, minElement, atomicCount, atomicMinElement,
                   locals, results>>

\* mutex mtx; count = 0; minElement = INT_MAX; vector<thread> threads
MutexEnter ==
    /\ mainPc = "mutex"
    /\ count' = 0
    /\ minElement' = INT_MAX
    /\ mtx' = -1
    /\ resetWorkers
    /\ calls' = calls + 1
    /\ mainPc' = "mutexSpawn"
    /\ UNCHANGED <<config, atomicCount, atomicMinElement, locals, results>>

MutexSpawn ==
    /\ mainPc = "mutexSpawn"
    /\ spawn("lock")
    /\ mainPc' = IF threads + 1 = NUM_THREADS THEN "mutexJoin" ELSE "mutexSpawn"
    /\ UNCHANGED <<config, calls, count, minElement, atomicCount,
                   atomicMinElement, mtx, joined, reads, raced, history, results>>

\* faulty variant: the task clears each element it has examined (data taken by
\* non-const reference)
MutexScanClobber(w) ==
    /\ mainPc \in {"mutexSpawn", "mutexJoin"}
    /\ pc[w] = "scan" /\ i[w] < end[w] /\ InBounds(i[w])
    /\ scanElement(w, At(i[w]), "lock")
    /\ data' = [data EXCEPT ![i[w] + 1] = 0]
    /\ UNCHANGED <<DATA_SIZE, NUM_THREADS, mainPc, calls, count, minElement,
                   atomicCount, atomicMinElement, mtx, threads, joined, raced,
                   history, results>>

MutexScan(w) ==
    /\ mainPc \in {"mutexSpawn", "mutexJoin"}
    /\ pc[w] = "scan" /\ i[w] < end[w] /\ InBounds(i[w])
    /\ scanElement(w, At(i[w]), "lock")
    /\ UNCHANGED <<config, mainPc, calls, count, minElement, atomicCount,
                   atomicMinElement, mtx, threads, joined, raced, history, results>>

\* faulty variant: the task enters the critical section without waiting for the mutex
MutexLockNoWait(w) ==
    /\ pc[w] = "lock"
    /\ mtx' = w
    /\ pc' = [pc EXCEPT ![w] = "addCount"]
    /\ UNCHANGED <<config, mainPc, calls, count, minElement, atomicCount,
                   atomicMinElement, threads, joined, locals, reads, raced,
                   history, results>>

\* lock_guard lock(mtx): blocks until the mutex is free
MutexLock(w) ==
    /\ pc[w] = "lock"
    /\ mtx = -1
    /\ mtx' = w
    /\ pc' = [pc EXCEPT ![w] = "addCount"]
    /\ UNCHANGED <<config, mainPc, calls, count, minElement, atomicCount,
                   atomicMinElement, threads, joined, locals, reads, raced,
                   history, results>>

\* count += localCount
MutexAddCount(w) ==
    /\ pc[w] = "addCount"
    /\ count' = count + localCount[w]
    /\ adds' = [adds EXCEPT ![w] = @ + 1]
    /\ pc' = [pc EXCEPT ![w] = "setMin"]
    /\ UNCHANGED <<config, mainPc, calls, minElement, atomicCount,
                   atomicMinElement, mtx, threads, joined, locals, reads, raced,
                   swaps, fails, results>>

\* faulty variant: minElement = localMin
MutexSetMinOverwrite(w) ==
    /\ pc[w] = "setMin"
    /\ minElement' = localMin[w]
    /\ pc' = [pc EXCEPT ![w] = "unlock"]
    /\ UNCHANGED <<config, mainPc, calls, count, atomicCount,
                   atomicMinElement, mtx, threads, joined, locals, reads, raced,
                   history, results>>

\* minElement = min(minElement, localMin)
MutexSetMin(w) ==
    /\ pc[w] = "setMin"
    /\ minElement' = min(minElement, localMin[w])
    /\ pc' = [pc EXCEPT ![w] = "unlock"]
    /\ UNCHANGED <<config, mainPc, calls, count, atomicCount,
                   atomicMinElement, mtx, threads, joined, locals, reads, raced,
                   history, results>>

\* faulty variant: the task ends without releasing the mutex
MutexUnlockMissing(w) ==
    /\ pc[w] = "unlock"
    /\ pc' = [pc EXCEPT ![w] = "done"]
    /\ UNCHANGED <<config, mainPc, calls, count, minElement, atomicCount,
                   atomicMinElement, mtx, threads, joined, locals, reads, raced,
                   history, results>>

\* the lock_guard's destructor at the end of the task
MutexUnlock(w) ==
    /\ pc[w] = "unlock"
    /\ mtx' = -1
    /\ pc' = [pc EXCEPT ![w] = "done"]
    /\ UNCHANGED <<config, mainPc, calls, count, minElement, atomicCount,
                   atomicMinElement, threads, joined, locals, reads, raced,
                   history, results>>

MutexJoin ==
    /\ mainPc = "mutexJoin"
    /\ join
    /\ UNCHANGED <<config, mainPc, calls, count, minElement, atomicCount,
                   atomicMinElement, mtx, threads, pc, locals, reads, raced,
                   history, results>>

\* the call returns and main prints count and minElement
MutexReturn ==
    /\ mainPc = "mutexJoin"
    /\ joined = NUM_THREADS
    /\ results' = Record("mutex", <<count, minElement>>)
    /\ mainPc' = afterCall(calls)
    /\ UNCHANGED <<config, calls, count, minElement, atomicCount,
                   atomicMinElement, mtx, threads, joined, pc, locals, reads,
                   raced, history>>

MutexWorker(w) ==
    \/ MutexScan(w) \/ MutexLock(w)
    \/ MutexAddCount(w) \/ MutexSetMin(w) \/ MutexUnlock(w)

findDivisibleWithMutex ==
    \/ MutexEnter \/ MutexSpawn \/ MutexJoin \/ MutexReturn
    \/ \E w \in Workers : MutexWorker(w)

\* ----------------------------------------------------- findDivisibleWithAtomic
\* vector<thread> threads; the atomics are the caller's and are not reset
AtomicEnter ==
    /\ mainPc = "atomic"
    /\ resetWorkers
    /\ calls' = calls + 1
    /\ mainPc' = "atomicSpawn"
    /\ UNCHANGED <<config, count, minElement, atomicCount, atomicMinElement,
                   mtx, locals, results>>

AtomicSpawn ==
    /\ mainPc = "atomicSpawn"
    /\ spawn("fetchAdd")
    /\ mainPc' = IF threads + 1 = NUM_THREADS THEN "atomicJoin" ELSE "atomicSpawn"
    /\ UNCHANGED <<config, calls, count, minElement, atomicCount,
                   atomicMinElement, mtx, joined, reads, raced, history, results>>

AtomicScan(w) ==
    /\ mainPc \in {"atomicSpawn", "atomicJoin"}
    /\ pc[w] = "scan" /\ i[w] < end[w] /\ InBounds(i[w])
    /\ scanElement(w, At(i[w]), "fetchAdd")
    /\ UNCHANGED <<config, mainPc, calls, count, minElement, atomicCount,
                   atomicMinElement, mtx, threads, joined, raced, history, results>>

\* count.fetch_add(localCount)
AtomicFetchAdd(w) ==
    /\ pc[w] = "fetchAdd"
    /\ atomicCount' = atomicCount + localCount[w]
    /\ adds' = [adds EXCEPT ![w] = @ + 1]
    /\ pc' = [pc EXCEPT ![w] = "load"]
    /\ UNCHANGED <<config, mainPc, calls, count, minElement, atomicMinElement,
                   mtx, threads, joined, locals, reads, raced, swaps, fails,
                   results>>

\* faulty variant: int currentMin = INT_MAX
AtomicLoadSentinel(w) ==
    /\ pc[w] = "load"
    /\ currentMin' = [currentMin EXCEPT ![w] = INT_MAX]
    /\ raced' = [raced EXCEPT ![w] = FALSE]
    /\ pc' = [pc EXCEPT ![w] = "cas"]
    /\ UNCHANGED <<config, mainPc, calls, count, minElement, atomicCount,
                   atomicMinElement, mtx, threads, joined, start, end, i,
                   localCount, localMin, reads, history, results>>

\* int currentMin = minElement.load()
AtomicLoad(w) ==
    /\ pc[w] = "load"
    /\ currentMin' = [currentMin EXCEPT ![w] = atomicMinElement]
    /\ raced' = [raced EXCEPT ![w] = FALSE]
    /\ pc' = [pc EXCEPT ![w] = "cas"]
    /\ UNCHANGED <<config, mainPc, calls, count, minElement, atomicCount,
                   atomicMinElement, mtx, threads, joined, start, end, i,
                   localCount, localMin, reads, history, results>>

\* while (localMin < currentMin && ...): the first operand is false
CasExit(w) ==
    /\ pc[w] = "cas"
    /\ ~(localMin[w] < currentMin[w])
    /\ pc' = [pc EXCEPT ![w] = "done"]
    /\ UNCHANGED <<config, mainPc, calls, count, minElement, atomicCount,
                   atomicMinElement, mtx, threads, joined, locals, reads, raced,
                   history, results>>

\* faulty variant: the result of the exchange is ignored, so after a success
\* the loop tests again: while (localMin < currentMin) compare_exchange_weak(..)
CasSucceedLoopsOn(w) ==
    /\ pc[w] = "cas"
    /\ localMin[w] < currentMin[w]
    /\ atomicMinElement = currentMin[w]
    /\ atomicMinElement' = localMin[w]
    /\ raced' = [v \in Workers |-> IF v = w THEN raced[v] ELSE TRUE]
    /\ swaps' = [swaps EXCEPT ![w] = @ + 1]
    /\ UNCHANGED <<config, mainPc, calls, count, minElement, atomicCount,
                   mtx, threads, joined, pc, locals, reads, adds, fails,
                   results>>

\* faulty variant: localMin is stored without comparing the shared minimum
\* with currentMin (a plain store in place of the exchange)
CasSucceedNoCompare(w) ==
    /\ pc[w] = "cas"
    /\ localMin[w] < currentMin[w]
    /\ atomicMinElement' = localMin[w]
    /\ raced' = [v \in Workers |-> IF v = w THEN raced[v] ELSE TRUE]
    /\ swaps' = [swaps EXCEPT ![w] = @ + 1]
    /\ pc' = [pc EXCEPT ![w] = "done"]
    /\ UNCHANGED <<config, mainPc, calls, count, minElement, atomicCount,
                   mtx, threads, joined, locals, reads, adds, fails, results>>

\* compare_exchange_weak(currentMin, localMin) stores localMin and returns true
CasSucceed(w) ==
    /\ pc[w] = "cas"
    /\ localMin[w] < currentMin[w]
    /\ atomicMinElement = currentMin[w]
    /\ atomicMinElement' = localMin[w]
    /\ raced' = [v \in Workers |-> IF v = w THEN raced[v] ELSE TRUE]
    /\ swaps' = [swaps EXCEPT ![w] = @ + 1]
    /\ pc' = [pc EXCEPT ![w] = "done"]
    /\ UNCHANGED <<config, mainPc, calls, count, minElement, atomicCount,
                   mtx, threads, joined, locals, reads, adds, fails, results>>

\* faulty variant: the failed exchange does not refresh currentMin (the expected
\* value is passed by copy)
CasFailStale(w) ==
    /\ pc[w] = "cas"
    /\ localMin[w] < currentMin[w]
    /\ atomicMinElement # currentMin[w]
    /\ UNCHANGED vars

\* faulty variant: an `if` in place of the `while`: after one failed exchange
\* the task ends
CasFailGiveUp(w) ==
    /\ pc[w] = "cas"
    /\ localMin[w] < currentMin[w]
    /\ atomicMinElement # currentMin[w]
    /\ currentMin' = [currentMin EXCEPT ![w] = atomicMinElement]
    /\ raced' = [raced EXCEPT ![w] = FALSE]
    /\ fails' = [fails EXCEPT ![w] = @ + 1]
    /\ pc' = [pc EXCEPT ![w] = "done"]
    /\ UNCHANGED <<config, mainPc, calls, count, minElement, atomicCount,
                   atomicMinElement, mtx, threads, joined, start, end, i,
                   localCount, localMin, reads, adds, swaps, results>>

\* faulty variant: the retry loop encloses the fetch_add, so a failed exchange
\* adds localCount again
CasFailReAdd(w) ==
    /\ pc[w] = "cas"
    /\ localMin[w] < currentMin[w]
    /\ atomicMinElement # currentMin[w]
    /\ atomicCount' = atomicCount + localCount[w]
    /\ adds' = [adds EXCEPT ![w] = @ + 1]
    /\ currentMin' = [currentMin EXCEPT ![w] = atomicMinElement]
    /\ raced' = [raced EXCEPT ![w] = FALSE]
    /\ fails' = [fails EXCEPT ![w] = @ + 1]
    /\ UNCHANGED <<config, mainPc, calls, count, minElement,
                   atomicMinElement, mtx, threads, joined, pc, start, end, i,
                   localCount, localMin, reads, swaps, results>>

\* compare_exchange_weak finds another value, loads it into currentMin and
\* returns false: the loop tests again
CasFail(w) ==
    /\ pc[w] = "cas"
    /\ localMin[w] < currentMin[w]
    /\ atomicMinElement # currentMin[w]
    /\ currentMin' = [currentMin EXCEPT ![w] = atomicMinElement]
    /\ raced' = [raced EXCEPT ![w] = FALSE]
    /\ fails' = [fails EXCEPT ![w] = @ + 1]
    /\ UNCHANGED <<config, mainPc, calls, count, minElement, atomicCount,
                   atomicMinElement, mtx, threads, joined, pc, start, end, i,
                   localCount, localMin, reads, adds, swaps, results>>

\* compare_exchange_weak fails although the values are equal (it may, being
\* weak): currentMin is reloaded with the same value and the loop tests again
CasSpurious(w) ==
    /\ pc[w] = "cas"
    /\ localMin[w] < currentMin[w]
    /\ atomicMinElement = currentMin[w]
    /\ UNCHANGED vars

AtomicJoin ==
    /\ mainPc = "atomicJoin"
    /\ join
    /\ UNCHANGED <<config, mainPc, calls, count, minElement, atomicCount,
                   atomicMinElement, mtx, threads, pc, locals, reads, raced,
                   history, results>>

\* the call returns and main prints atomicCount.load(), atomicMinElement.load()
AtomicReturn ==
    /\ mainPc = "atomicJoin"
    /\ joined = NUM_THREADS
    /\ results' = Record("atomic", <<atomicCount, atomicMinElement>>)
    /\ mainPc' = afterCall(calls)
    /\ UNCHANGED <<config, calls, count, minElement, atomicCount,
                   atomicMinElement, mtx, threads, joined, pc, locals, reads,
                   raced, history>>

AtomicWorker(w) ==
    \/ AtomicScan(w) \/ AtomicFetchAdd(w)
    \/ AtomicLoad(w) \/ CasExit(w) \/ CasSucceed(w) \/ CasFail(w)
    \/ CasSpurious(w)

findDivisibleWithAtomic ==
    \/ AtomicEnter \/ AtomicSpawn \/ AtomicJoin \/ AtomicReturn
    \/ \E w \in Workers : AtomicWorker(w)

\* ------------------------------------------------------------ specifications
\* main: the three reductions, once each, on data of DATA_SIZE elements
Next ==
    \/ findDivisibleWithoutParallel
    \/ findDivisibleWithMutex
    \/ findDivisibleWithAtomic

Spec == Init /\ [][Next]_vars

\* the steps of the calling thread, and those of worker thread w
MainStep ==
    \/ findDivisibleWithoutParallel
    \/ MutexEnter \/ MutexSpawn \/ MutexJoin \/ MutexReturn
    \/ AtomicEnter \/ AtomicSpawn \/ AtomicJoin \/ AtomicReturn

WorkerStep(w) == MutexWorker(w) \/ AtomicWorker(w)

\* every thread that can take a step is eventually scheduled; a step that
\* changes nothing (a spurious compare_exchange_weak failure) does not count
Fairness ==
    /\ WF_vars(MainStep)
    /\ \A w \in Workers : WF_vars(WorkerStep(w))

FairSpec == Spec /\ Fairness

\* the reductions called with an array whose length need not be DATA_SIZE
MutexScanPastEnd(w) ==
    /\ mainPc \in {"mutexSpawn", "mutexJoin"}
    /\ pc[w] = "scan" /\ i[w] < end[w] /\ ~InBounds(i[w])
    /\ scanPastEnd(w, "lock")
    /\ UNCHANGED <<config, calls, count, minElement, atomicCount,
                   atomicMinElement, mtx, threads, joined, raced, history, results>>

AtomicScanPastEnd(w) ==
    /\ mainPc \in {"atomicSpawn", "atomicJoin"}
    /\ pc[w] = "scan" /\ i[w] < end[w] /\ ~InBounds(i[w])
    /\ scanPastEnd(w, "fetchAdd")
    /\ UNCHANGED <<config, calls, count, minElement, atomicCount,
                   atomicMinElement, mtx, threads, joined, raced, history, results>>

NextAnyLength ==
    \/ Next
    \/ \E w \in Workers : MutexScanPastEnd(w) \/ AtomicScanPastEnd(w)

SpecAnyLength == InitAnyLength /\ [][NextAnyLength]_vars

\* a caller that, after main's three calls, calls a reduction again with the
\* same data and the same count / minElement variables
CallAgain ==
    /\ mainPc = "done"
    /\ calls < 3 + MaxCalls
    /\ mainPc' \in {"seq", "mutex", "atomic"}
    /\ UNCHANGED <<config, calls, count, minElement, atomicCount,
                   atomicMinElement, mtx, threads, joined, pc, locals, reads,
                   raced, history, results>>

NextReuse == Next \/ CallAgain

SpecReuse == Init /\ [][NextReuse]_vars

\* -------------------------------------------------------------- properties
Active == 0 .. (NUM_THREADS - 1)

MutexPhase == mainPc \in {"mutexSpawn", "mutexJoin"}

AtomicPhase == mainPc \in {"atomicSpawn", "atomicJoin"}

AllJoined == mainPc \in {"mutexJoin", "atomicJoin"} /\ joined = NUM_THREADS

RECURSIVE SumLocalCounts(_)
SumLocalCounts(n) == IF n = 0 THEN 0 ELSE localCount[n - 1] + SumLocalCounts(n - 1)

RECURSIVE MinLocalMins(_)
MinLocalMins(n) ==
    IF n = 0 THEN INT_MAX
    ELSE LET rest == MinLocalMins(n - 1) IN
         IF localMin[n - 1] < rest THEN localMin[n - 1] ELSE rest

Returned(fn) == Len(results[fn]) > 0

MergedAfterJoin ==
    /\ (mainPc = "mutexJoin" /\ joined = NUM_THREADS) =>
           /\ count = SumLocalCounts(NUM_THREADS)
           /\ minElement = MinLocalMins(NUM_THREADS)
    /\ (mainPc = "atomicJoin" /\ joined = NUM_THREADS) =>
           /\ atomicCount = SumLocalCounts(NUM_THREADS)
           /\ atomicMinElement = MinLocalMins(NUM_THREADS)

\* a joined atomic reduction whose last merging worker did not hold the least
\* local minimum, and two workers found different minima
MergedAfterJoinWitness ==
    /\ mainPc = "atomicJoin" /\ joined = NUM_THREADS
    /\ \E w \in Active, v \in Active :
          /\ localMin[w] < localMin[v] /\ localMin[v] < INT_MAX
          /\ currentMin[v] = localMin[w]
    /\ atomicCount >= 2

\* C3: the ranges handed to the workers are pairwise disjoint, their union is
\* exactly the index set of the array that was passed, no read of data[] falls
\* outside the array, and once the workers are joined every index of the array
\* has been read by exactly one worker.
ShardRange(w) == start[w] .. (end[w] - 1)

InCritical(w) == pc[w] \in {"addCount", "setMin", "unlock"}

CriticalSectionExclusive ==
    /\ \A w \in Workers : InCritical(w) => mtx = w
    /\ \A w \in Workers, v \in Workers : InCritical(w) /\ InCritical(v) => w = v

AggregateTouchedUnderLock ==
    MutexPhase /\ <<count, minElement>>' # <<count, minElement>> =>
        /\ mtx \in Workers
        /\ mtx' = mtx
        /\ pc[mtx] \in {"addCount", "setMin"}
        /\ pc'[mtx] # pc[mtx]

MutexGuardsAggregate ==
    []CriticalSectionExclusive /\ [][AggregateTouchedUnderLock]_vars

\* a worker is inside the critical section while another waits for the mutex
MutexGuardsAggregateWitness ==
    \E w \in Active, v \in Active :
        /\ pc[w] = "setMin" /\ pc[v] = "lock"
        /\ localCount[w] > 0 /\ localCount[v] > 0

RepeatedCallSameResult ==
    \A fn \in {"seq", "mutex", "atomic"} :
        \A j \in DOMAIN results[fn], k \in DOMAIN results[fn] :
            results[fn][j] = results[fn][k]

\* C7: whenever the caller is outside a parallel reduction (the call has
\* returned), no worker is scanning or merging: every spawned worker is done.
ReturnedOnlyAfterJoin ==
    ~(MutexPhase \/ AtomicPhase) =>
        \A w \in Workers : pc[w] \in {"unspawned", "done"}

\* the mutex reduction has returned to main with several workers, all done
ReturnedOnlyAfterJoinWitness ==
    /\ mainPc = "atomic" /\ Returned("mutex")
    /\ NUM_THREADS >= 2
    /\ \A w \in Active : pc[w] = "done"

\* C8: under fair scheduling every worker that reaches the CAS retry loop
\* leaves it, and the atomic reduction, once entered, returns to its caller.
AtomicTerminates ==
    /\ \A w \in Workers : (AtomicPhase /\ pc[w] = "cas") ~> (pc[w] = "done")
    /\ (mainPc = "atomic" \/ AtomicPhase) ~> Returned("atomic")

\* a worker is in the retry loop and its next exchange will fail, because
\* another worker installed a minimum that is still above its own
AtomicTerminatesWitness ==
    \E w \in Active :
        /\ AtomicPhase /\ pc[w] = "cas"
        /\ atomicMinElement # currentMin[w]
        /\ localMin[w] < atomicMinElement

\* C9: a worker that is done does not hold the mutex and the mutex is free
\* when all workers are joined; under fair scheduling every worker waiting for
\* the mutex acquires it and the mutex reduction, once entered, returns.
MutexReleasedOnExit ==
    /\ \A w \in Workers : pc[w] = "done" => mtx # w
    /\ (mainPc = "mutexJoin" /\ joined = NUM_THREADS) => mtx = -1

MutexTerminates ==
    /\ []MutexReleasedOnExit
    /\ \A w \in Workers : (pc[w] = "lock") ~> (pc[w] = "addCount")
    /\ (mainPc = "mutex" \/ MutexPhase) ~> Returned("mutex")

\* a worker waits for the mutex while another, already done, has released it
\* and a third holds it
MutexTerminatesWitness ==
    \E w \in Active, v \in Active, u \in Active :
        /\ pc[w] = "lock" /\ pc[v] = "done" /\ InCritical(u)
        /\ MutexPhase

\* C10: in the atomic reduction every unfinished worker has a step of its own
\* that is enabled whatever the other workers do, and an exchange can fail
\* (the shared minimum differs from the worker's currentMin) only if another
\* worker's exchange succeeded since the worker last read the shared minimum.
AtomicNeverBlocks ==
    \A w \in Workers :
        /\ (AtomicPhase /\ pc[w] \in {"scan", "fetchAdd", "load", "cas"}) =>
               ENABLED <<AtomicWorker(w)>>_vars
        /\ (AtomicPhase /\ pc[w] = "cas" /\ localMin[w] < currentMin[w]
               /\ atomicMinElement # currentMin[w]) => raced[w]

\* a worker in the retry loop whose exchange is about to fail
AtomicNeverBlocksWitness ==
    \E w \in Active, v \in Active :
        /\ AtomicPhase /\ pc[w] = "cas" /\ pc[v] = "done"
        /\ localMin[w] < currentMin[w]
        /\ atomicMinElement = localMin[v] /\ atomicMinElement # currentMin[w]
        /\ raced[w]

\* C11: the atomic minimum merge is linearizable. Each worker has one
\* linearization point inside its merge (its successful exchange, or the load
\* or failed exchange that shows it a shared minimum not above its localMin);
\* at that step the shared minimum becomes min(shared, localMin), which is the
\* step the mutex reduction takes under its lock, and no other step of the
\* atomic reduction changes the shared minimum.
mergeMin(shared, local) == min(shared, local)

Linearized(w) ==
    \/ pc[w] = "done"
    \/ pc[w] = "cas" /\ ~(localMin[w] < currentMin[w])

LinearizationStep ==
    /\ (AtomicPhase /\ AtomicPhase') =>
           /\ \A w \in Workers : Linearized(w) => Linearized(w)'
           /\ Cardinality({w \in Workers : ~Linearized(w) /\ Linearized(w)'}) <= 1
           /\ \A w \in Workers :
                  (~Linearized(w) /\ Linearized(w)') =>
                      /\ pc[w] \in {"load", "cas"}
                      /\ atomicMinElement' = mergeMin(atomicMinElement, localMin[w])
           /\ (\A w \in Workers : Linearized(w)' = Linearized(w)) =>
                  atomicMinElement' = atomicMinElement
    /\ (MutexPhase /\ MutexPhase') =>
           /\ \A w \in Workers :
                  (pc[w] = "setMin" /\ pc'[w] # "setMin") =>
                      minElement' = mergeMin(minElement, localMin[w])
           /\ (\A w \in Workers : pc[w] = "setMin" => pc'[w] = "setMin") =>
                  minElement' = minElement

MinMergeLinearizable ==
    /\ [][LinearizationStep]_vars
    /\ [](AtomicPhase /\ joined = NUM_THREADS =>
             \A w \in Active : Linearized(w))

\* a worker linearized without writing: it observed the minimum another
\* worker's exchange had installed, not above its own, and is still in its loop
MinMergeLinearizableWitness ==
    \E w \in Active, v \in Active :
        /\ AtomicPhase /\ pc[w] = "cas" /\ swaps[v] = 1
        /\ localMin[w] < INT_MAX /\ localMin[v] < localMin[w]
        /\ currentMin[w] = localMin[v] /\ fails[w] >= 1

\* C12: each worker goes Spawned -> Running-Local-Reduction -> Merging ->
\* Joined and nowhere else. A worker that merges has scanned its whole shard;
\* every step that reads or writes the shared count or minimum is a step of a
\* worker that is merging; a merging worker never changes its scan position or
\* its local result again.
Merging(w) ==
    pc[w] \in {"lock", "addCount", "setMin", "unlock", "fetchAdd", "load", "cas"}

Phase(w) ==
    IF pc[w] = "unspawned" THEN 0
    ELSE IF pc[w] = "scan" THEN 1
    ELSE IF Merging(w) THEN 2
    ELSE 3

aggregate == <<count, minElement, atomicCount, atomicMinElement>>

SameCall == (MutexPhase /\ MutexPhase') \/ (AtomicPhase /\ AtomicPhase')

LifecycleStep ==
    SameCall =>
        /\ \A w \in Workers :
               /\ \/ Phase(w)' = Phase(w)
                  \/ Phase(w)' = Phase(w) + 1
                  \/ Phase(w) = 0 /\ Phase(w)' = 2 /\ start'[w] = end'[w]
               /\ Phase(w) >= 2 =>
                      /\ i'[w] = i[w] /\ start'[w] = start[w] /\ end'[w] = end[w]
                      /\ localCount'[w] = localCount[w]
                      /\ localMin'[w] = localMin[w]
        /\ (aggregate' # aggregate \/ currentMin' # currentMin \/ mtx' # mtx) =>
               \E w \in Workers :
                   /\ Phase(w) = 2
                   /\ pc'[w] # pc[w] \/ currentMin'[w] # currentMin[w]
                   /\ \A v \in Workers \ {w} :
                          pc'[v] = pc[v] /\ currentMin'[v] = currentMin[v]

ShardScanned(w) ==
    /\ i[w] = end[w]
    /\ \A k \in ShardRange(w) : <<w, k>> \in reads

LocalBeforeMerge ==
    (MutexPhase \/ AtomicPhase) =>
        \A w \in Workers :
            /\ Phase(w) >= 2 => ShardScanned(w)
            /\ Phase(w) <= 1 => adds[w] = 0 /\ swaps[w] = 0 /\ fails[w] = 0
            /\ Phase(w) <= 1 => mtx # w

WorkerLifecycle == [][LifecycleStep]_vars /\ []LocalBeforeMerge

\* a worker with a shard of two elements is in its retry loop while another
\* worker is still scanning
WorkerLifecycleWitness ==
    \E w \in Active, v \in Active :
        /\ AtomicPhase /\ pc[w] = "cas" /\ pc[v] = "scan"
        /\ end[w] - start[w] >= 2

\* C13: each worker's local result is merged exactly once. A worker adds its
\* localCount once (it has added once it is past count += / fetch_add, and
\* not before), a failed exchange leaves the shared counter alone, and a
\* worker completes at most one successful exchange (none under the mutex).
HasAdded(w) == pc[w] \in {"setMin", "unlock", "load", "cas", "done"}

MergedOnce ==
    \A w \in Workers :
        /\ adds[w] <= 1 /\ swaps[w] <= 1
        /\ (MutexPhase \/ AtomicPhase) => (adds[w] = 1 <=> HasAdded(w))
        /\ MutexPhase => swaps[w] = 0
        /\ swaps[w] = 1 => pc[w] = "done"

RetryKeepsCount ==
    \A w \in Workers :
        /\ fails'[w] # fails[w] /\ AtomicPhase =>
               atomicCount' = atomicCount /\ adds' = adds
        /\ adds'[w] = adds[w] + 1 =>
               \/ MutexPhase /\ count' = count + localCount[w]
               \/ AtomicPhase /\ atomicCount' = atomicCount + localCount[w]

LocalResultConsumedOnce == []MergedOnce /\ [][RetryKeepsCount]_vars

\* a worker that counted matches finished after a failed and then a
\* successful exchange
LocalResultConsumedOnceWitness ==
    \E w \in Active :
        /\ AtomicPhase /\ pc[w] = "done" /\ localCount[w] > 0
        /\ fails[w] >= 1 /\ swaps[w] = 1 /\ adds[w] = 1

\* C14: when there are more workers than array elements, some worker gets an
\* empty range; a worker with an empty range reads nothing, counts nothing,
\* keeps localMin at INT_MAX and attempts no exchange; and the parallel
\* reductions still report the count and minimum of the whole array.
EmptyShard(w) == w < threads /\ start[w] = end[w]

ownLocals(w) == <<start[w], end[w], i[w], localCount[w], localMin[w], currentMin[w]>>

DatasetFrame ==
    /\ data' = data /\ Len(data') = Len(data)
    /\ DATA_SIZE' = DATA_SIZE /\ NUM_THREADS' = NUM_THREADS
    /\ SameCall =>
           \A w \in Workers :
               (Phase(w) \in {1, 2} /\ (pc'[w] # pc[w] \/ i'[w] # i[w])) =>
                   \A v \in Workers \ {w} : ownLocals(v)' = ownLocals(v)

DatasetReadOnly == [][DatasetFrame]_vars

\* the three reductions have run to the end over a three-element array that
\* several workers scanned
DatasetReadOnlyWitness ==
    /\ mainPc = "done" /\ Len(data) = 3 /\ NUM_THREADS >= 2
    /\ Returned("seq") /\ Returned("mutex") /\ Returned("atomic")
    /\ \A k \in 0 .. 2 : \E w \in Active : <<w, k>> \in reads

\* C16: once a worker of the atomic reduction has left its retry loop, the
\* shared minimum is at most that worker's localMin, in that state and in
\* every later state of the reduction; and a worker leaves the loop only by a
\* successful exchange or because localMin is not below the value it last
\* observed.
MinAtMostFinishedLocalMin ==
    AtomicPhase =>
        \A w \in Workers : pc[w] = "done" => atomicMinElement <= localMin[w]

LoopExitStep ==
    AtomicPhase =>
        \A w \in Workers :
            (pc[w] = "cas" /\ pc'[w] # "cas") =>
                /\ pc'[w] = "done"
                /\ \/ /\ swaps'[w] = swaps[w] + 1
                      /\ atomicMinElement = currentMin[w]
                      /\ atomicMinElement' = localMin[w]
                   \/ /\ ~(localMin[w] < currentMin[w])
                      /\ atomicMinElement' = atomicMinElement

LoopExitLeavesMinBelow ==
    []MinAtMostFinishedLocalMin /\ [][LoopExitStep]_vars

\* a worker that found a match left the loop without writing, after a failed
\* exchange showed it a smaller minimum
LoopExitLeavesMinBelowWitness ==
    \E w \in Active :
        /\ AtomicPhase /\ pc[w] = "done"
        /\ swaps[w] = 0 /\ fails[w] >= 1
        /\ localMin[w] < INT_MAX /\ atomicMinElement < localMin[w]

\* C17: during a parallel reduction the shared minimum never increases, a
\* successful exchange strictly lowers it, and its value is always INT_MAX or
\* an element of the array divisible by DIVISOR.
SentinelOrMatch(m) ==
    \/ m = INT_MAX
    \/ \E k \in 0 .. (Len(data) - 1) : At(k) = m /\ divisible(At(k))

MinStepDown ==
    /\ (MutexPhase /\ MutexPhase') => minElement' <= minElement
    /\ (AtomicPhase /\ AtomicPhase') =>
           /\ atomicMinElement' <= atomicMinElement
           /\ \A w \in Workers :
                  swaps'[w] # swaps[w] => atomicMinElement' < atomicMinElement

MinIsSentinelOrMatch ==
    /\ MutexPhase => SentinelOrMatch(minElement)
    /\ AtomicPhase => SentinelOrMatch(atomicMinElement)

SharedMinMonotone == [][MinStepDown]_vars /\ []MinIsSentinelOrMatch

\* two workers' exchanges succeeded one after the other, the second lowering
\* the minimum the first had installed
SharedMinMonotoneWitness ==
    \E w \in Active, v \in Active :
        /\ AtomicPhase /\ swaps[w] = 1 /\ swaps[v] = 1
        /\ atomicMinElement = localMin[w] /\ localMin[w] < localMin[v]

\* C18: the aggregate is consistent at intermediate points. In the mutex
\* reduction, whenever the mutex is free, (count, minElement) is the sum of
\* the local counts and the least local minimum of exactly the workers that
\* have left the critical section. In the atomic reduction the counter is
\* always the sum of the local counts of exactly the workers that have done
\* their fetch_add, and never exceeds the number of matching elements.
RECURSIVE SumCounts(_)
SumCounts(S) ==
    IF S = {} THEN 0
    ELSE LET w == CHOOSE x \in S : TRUE IN localCount[w] + SumCounts(S \ {w})

RECURSIVE LeastMin(_)
LeastMin(S) ==
    IF S = {} THEN INT_MAX
    ELSE LET w == CHOOSE x \in S : TRUE IN min(LeastMin(S \ {w}), localMin[w])

LeftCritical == {w \in Active : pc[w] = "done"}

FetchAdded == {w \in Active : adds[w] = 1}

matching == scanAll(0, 0, INT_MAX)[1]

AggregateConsistent ==
    /\ (MutexPhase /\ mtx = -1) =>
           /\ count = SumCounts(LeftCritical)
           /\ minElement = LeastMin(LeftCritical)
    /\ AtomicPhase =>
           /\ atomicCount = SumCounts(FetchAdded)
           /\ atomicCount <= matching

\* the mutex is free between two merges: one worker has merged its matches,
\* another, with matches of its own, is waiting to lock
AggregateConsistentWitness ==
    \E w \in Active, v \in Active :
        /\ MutexPhase /\ mtx = -1
        /\ pc[w] = "done" /\ localCount[w] > 0
        /\ pc[v] = "lock" /\ localCount[v] > 0 /\ localMin[v] < localMin[w]

\* C19: in the atomic reduction a worker's exchange fails (other than
\* spuriously) at most NUM_THREADS - 1 times: its failures are no more than
\* the other workers' successful exchanges, each worker succeeds at most once,
\* and the failures of all workers together are at most
\* NUM_THREADS * (NUM_THREADS - 1).
RECURSIVE Total(_, _)
Total(f, S) ==
    IF S = {} THEN 0
    ELSE LET w == CHOOSE x \in S : TRUE IN f[w] + Total(f, S \ {w})

CasFailuresBounded ==
    /\ \A w \in Workers :
           /\ swaps[w] <= 1
           /\ fails[w] <= NUM_THREADS - 1
           /\ fails[w] <= Total(swaps, Active \ {w})
    /\ Total(fails, Workers) <= NUM_THREADS * (NUM_THREADS - 1)

\* the bound is met: with three workers one of them has failed twice, after
\* the successful exchanges of the other two
CasFailuresBoundedWitness ==
    \E w \in Active :
        /\ AtomicPhase /\ NUM_THREADS = 3
        /\ fails[w] = NUM_THREADS - 1
        /\ \A v \in Active \ {w} : swaps[v] = 1

====
